---- MODULE Spec2Model ----
(***************************************************************************)
(* Model of cereja's live progress display (src/cereja/display.py):        *)
(* the process-wide __Stdout singleton, ConsoleBase, ProgressBase and the  *)
(* two background threads ("awaiting" animator, "Console" relay).          *)
(*                                                                         *)
(* The foreground caller is a stack machine: `stack` holds the code        *)
(* positions still to execute (innermost first), so that a nested call     *)
(* (start -> restart -> stop, start) runs exactly the statements the       *)
(* Python code runs, and the background threads interleave between them.   *)
(*                                                                         *)
(* A thread object is known to the program only through the field that     *)
(* refers to it (th_awaiting, th_console).  The model keeps the program    *)
(* position of the referenced thread in that field, and counts the started *)
(* threads no field refers to any more by program position.                *)
(*                                                                         *)
(* __Stdout.cj_msg (remember the line, then write it) is one step here.    *)
(***************************************************************************)
EXTENDS Integers, Sequences, FiniteSets, TLC

\* ------------------------------------------------------------------ bounds
MaxThreads == 2     \* live threads of one kind (animator / relay) at a time
MaxNTimes  == 2     \* cap on n_times (renders per run explored)
MaxMax     == 2     \* largest max_value / for_value explored
MaxStates  == 5     \* cap on the length of the session's state sequence
MaxAddLen  == 2     \* longest list handed to add_state
MaxTupleLen == 2    \* longest tuple of positions handed to an indexed read
MaxSeqLen  == 2     \* longest sequence wrapped by a ProgressIterator
MaxWrites  == 2     \* lines the program prints to the redirected streams
MaxTime    == 2     \* longest run time given to an animator, in sleeps of 0.01 s

\* --------------------------------------------------------------- constants
\* The states a session can hold: the module's StateBar, StatePercent,
\* StateTime and StateLoading (the values of ProgressBase.__key_map).
Variants == {"Bar", "Percent", "Time", "Loading"}

default_states == <<"Bar", "Percent", "Time">>

\* ProgressBase.__key_map: the symbolic keys of an indexed read.
KeyMap == [k \in {"loading", "time", "percent", "bar"} |->
             CASE k = "loading" -> "Loading"
               [] k = "time"    -> "Time"
               [] k = "percent" -> "Percent"
               [] k = "bar"     -> "Bar"]

\* max_value when the constructor is given none.
DefaultMaxValue == 100

None == "None"               \* Python's None

\* Program positions of a running _show_awaiting thread: at the loop test,
\* about to write a display frame, about to write the done frame.
AnimPcs == {"check", "frame", "final"}

VARIABLES
  \* ProgressBase fields (th_awaiting: position of the thread it refers to,
  \* "unstarted" before start(), "ended" once the thread has returned)
  states, max_value, n_times, started, awaiting_update, th_awaiting,
  \* ConsoleBase field
  title,
  \* __Stdout singleton fields and the process-wide sys.stdout/sys.stderr
  \* (th_console: "none", or for the thread it refers to "loop" at the test
  \* of its loop or asleep, "busy" inside an iteration, "ended")
  use_th_console, th_console, last_console_msg, sys_stdout,
  \* started threads no field refers to: animators per position, relays
  awaiting_threads, console_threads,
  \* the terminal: the line most recently written by __Stdout._write
  term_last,
  \* the caller: continuation stack, arguments, locals, raised exception
  stack, arg_value, arg_kind, arg_max, build, raised,
  \* history variables (observations of the run, never read by the program)
  progress_written, done_seen, late, last_add,
  \* the value the last indexed read returned to the caller
  ret,
  \* history: the states and style arguments the session was constructed with
  ctor_states, ctor_style,
  \* the terminal's encoding, the configured NON_BMP_SUPPORTED, and the
  \* character classes of the text the last _write put on the terminal
  encoding, non_bmp_supported, written,
  \* the scoped use of the session (`with progress:`): inside the block, the
  \* exception handed to __exit__, and (history) the error lines written
  \* through the sink since the block was entered
  in_scope, exc_val, error_lines,
  \* the ProgressIterator and its generator: position ("none" before a
  \* sequence is wrapped), len(self.sequence), enumerate's n
  it_pc, it_len, it_index,
  \* history of the wrapped sequence: bodies of start() run while it was
  \* wrapped and while it was consumed, stop() calls that stopped the session
  \* while it was consumed, the values handed to show_progress
  wrap_starts, run_starts, run_stops, it_advances,
  \* the capture buffers __stdout_buffer and __stderr_buffer (the lines in
  \* them, each named by the number of the program's write), the number of
  \* lines the program has printed, and the relay threads that are inside an
  \* iteration of write_user_msg with their locals
  stdout_buffer, stderr_buffer, n_writes, relays,
  \* history: how often each printed line was relayed to the terminal, the
  \* marker lines written since disable() was last entered, and whether a
  \* relay has re-printed a show_progress line since the last start()
  relayed, marker_lines, progress_redrawn,
  \* an animator thread created with a maximum run time: its position
  \* ("none" before it is created), time_, the time since it began (both in
  \* units of 0.01 s), and (history) the last line it wrote and the number
  \* of done lines it wrote
  tm_pc, tm_limit, tm_elapsed, tm_last, tm_done_lines,
  \* a second session of the same process, with a console of its own: its
  \* ProgressBase fields started, _awaiting_update and th_awaiting ("none"
  \* while no second session exists) and the title of its console; and the
  \* field `console` of the __Stdout singleton, the console whose __init__
  \* called it last ("first": the console of the session above)
  o_started, o_awaiting_update, o_th_awaiting, o_title, console

sessionVars == <<states, max_value, n_times, started, awaiting_update, th_awaiting>>
stdoutVars  == <<use_th_console, th_console, last_console_msg, sys_stdout>>
threadVars  == <<awaiting_threads, console_threads>>
callerVars  == <<stack, arg_value, arg_kind, arg_max, build, raised>>
histVars    == <<progress_written, done_seen, late, last_add>>
readVars    == <<ret>>
ctorVars    == <<ctor_states, ctor_style>>
writeVars   == <<encoding, non_bmp_supported, written>>
scopeVars   == <<in_scope, exc_val, error_lines>>
iterVars    == <<it_pc, it_len, it_index>>
iterHist    == <<wrap_starts, run_starts, run_stops, it_advances>>
relayVars   == <<stdout_buffer, stderr_buffer, n_writes, relays>>
sinkHist    == <<relayed, marker_lines, progress_redrawn>>
timedVars   == <<tm_pc, tm_limit, tm_elapsed, tm_last, tm_done_lines>>
pairVars    == <<o_started, o_awaiting_update, o_th_awaiting, o_title, console>>

\* The state only the operations further below touch.
extVars == <<readVars, ctorVars, writeVars, scopeVars, iterVars, iterHist,
             relayVars, sinkHist, timedVars, pairVars>>

vars == <<states, max_value, n_times, started, awaiting_update, th_awaiting,
          title, use_th_console, th_console, last_console_msg, sys_stdout,
          awaiting_threads, console_threads, term_last,
          stack, arg_value, arg_kind, arg_max, build, raised,
          progress_written, done_seen, late, last_add, extVars>>

\* ------------------------------------------------------------------- lines
\* A terminal line: its kind, and for a progress line the rendered fragments
\* (one <<variant, "display"|"done">> per state) and the trailing marker.
Line(kind, frags, marker) == [kind |-> kind, frags |-> frags, marker |-> marker]

NoLine == Line("none", <<>>, FALSE)

PlainLine(kind) == Line(kind, <<>>, FALSE)

Range(s) == {s[i] : i \in 1..Len(s)}

\* A value handed back to the caller: nothing, one state, a tuple of states.
Value(kind, val) == [kind |-> kind, val |-> val]

NoValue == Value("none", <<>>)

\* ------------------------------------------------- pure parts of the code
\* cereja.concurrently.TaskList(get_state, self._states).run(): get_state
\* applied to every state, results in the order of the states.
TaskListRun(how, sts) == [i \in 1..Len(sts) |-> <<sts[i], how>>]

\* Variant of IsDone: completion only at the maximum itself.
IsDoneAtMax(for_value, maxv) == for_value >= maxv

\* _states_view: the completion test `for_value >= self.max_value - 1`.
IsDone(for_value, maxv) == for_value >= maxv - 1

\* Variant of StatesView: a run that has rendered done() renders no state again.
StatesViewOnce(for_value, maxv, sts) ==
  LET is_done == IsDone(for_value, maxv)
  IN  IF done_seen
      THEN Line("progress", <<>>, FALSE)
      ELSE Line("progress",
                TaskListRun(IF is_done THEN "done" ELSE "display", sts),
                is_done)

\* _states_view: the text it returns (fragments joined by ' - ', then "Done!").
StatesView(for_value, maxv, sts) ==
  LET is_done == IsDone(for_value, maxv)
  IN  Line("progress",
           TaskListRun(IF is_done THEN "done" ELSE "display", sts),
           is_done)

\* _filter_and_add_state: the states of `arg` that are not in self._states.
\* The filter reads self._states only, so a variant named twice in `arg`
\* passes twice.
Filtered(sts, arg) == SelectSeq(arg, LAMBDA s : s \notin Range(sts))

\* Variant of Notifications: one console.log call per filtered state.
NotificationsPerState(filtered) == Len(filtered)

\* _filter_and_add_state: `if any(filtered)` guards one console.log call.
Notifications(filtered) == IF Len(filtered) > 0 THEN 1 ELSE 0

\* _filter_and_add_state: the new value of self._states.
FilterAndAdd(sts, arg) ==
  IF Len(Filtered(sts, arg)) > 0 THEN sts \o Filtered(sts, arg) ELSE sts

\* __setitem__ with an int key: Python list indexing (negative keys count
\* from the end); 0 when the key is out of range (IndexError).
PyIndex(sts, key) ==
  IF key >= 0 /\ key < Len(sts) THEN key + 1
  ELSE IF key < 0 /\ key >= 0 - Len(sts) THEN Len(sts) + key + 1
  ELSE 0

SetItemResult(sts, key, value) ==
  [sts EXCEPT ![PyIndex(sts, key)] = value]

\* Variant of ConstructStates: an explicit list replaces the defaults.
ConstructStatesReplacing(arg) == IF arg = <<>> THEN default_states ELSE arg

\* ProgressBase.__init__: self._states = self.default_states, then
\* self.add_state(states) (states=None and an empty list add nothing).
ConstructStates(arg) == FilterAndAdd(default_states, arg)

\* max(slice_) of a non-empty tuple of positions.
MaxOf(idxs) == CHOOSE m \in Range(idxs) : \A x \in Range(idxs) : x <= m

\* self._states.index(key): the first position holding the state.
IndexOf(sts, v) ==
  CHOOSE i \in 1..Len(sts) : sts[i] = v /\ \A j \in 1..(i - 1) : sts[j] # v

\* __getitem__ with a tuple: the positions the generator keeps
\* (`if idx < len(self)`).
KeptPositions(sts, idxs) == SelectSeq(idxs, LAMBDA i : i < Len(sts))

\* __getitem__ with a tuple: the exception it raises, None if it returns.
\* max(()) raises ValueError; a kept position below -len raises IndexError
\* from the tuple indexing.
GetItemTupleRaises(sts, idxs) ==
  IF idxs = <<>> THEN "ValueError"
  ELSE IF MaxOf(idxs) > Len(sts) THEN "IndexError"
  ELSE IF \E k \in 1..Len(KeptPositions(sts, idxs)) :
            PyIndex(sts, KeptPositions(sts, idxs)[k]) = 0
       THEN "IndexError"
  ELSE None

\* __getitem__ with a tuple: the tuple it returns.
GetItemTupleValue(sts, idxs) ==
  LET kept == KeptPositions(sts, idxs)
  IN  [k \in 1..Len(kept) |-> sts[PyIndex(sts, kept[k])]]

\* __getitem__ with a str: KeyError from the __key_map lookup or from the
\* explicit raise when the state is not in self._states.
GetItemStrRaises(sts, key) ==
  IF key \notin DOMAIN KeyMap THEN "KeyError"
  ELSE IF KeyMap[key] \notin Range(sts) THEN "KeyError"
  ELSE None

\* A text is modelled by the classes of characters it holds: ASCII, other
\* Latin-1 (the prefix's U+00BB), other BMP (U+2705, U+274C, and the
\* replacement character U+FFFD), non-BMP (the prefix's U+1F352).
CharClasses == {"ascii", "latin1", "bmp", "nonbmp"}

\* What self.__stdout_original.write can encode, by the stream's encoding;
\* anything else raises UnicodeEncodeError, a UnicodeError.
Encodings == {"ascii", "latin-1", "ucs-2", "utf-8"}

Encodable(enc) ==
  CASE enc = "ascii"   -> {"ascii"}
    [] enc = "latin-1" -> {"ascii", "latin1"}
    [] enc = "ucs-2"   -> {"ascii", "latin1", "bmp"}
    [] enc = "utf-8"   -> CharClasses

\* ConsoleBase.translate_non_bmp: the text unchanged if non_bmp_supported,
\* else every non-BMP character replaced by U+FFFD.
TranslateNonBmp(chars, supported) ==
  IF supported THEN chars
  ELSE IF "nonbmp" \in chars THEN (chars \ {"nonbmp"}) \cup {"bmp"} ELSE chars

\* __Stdout._write: the text that reaches the terminal ({} if none does) and
\* the exception that leaves _write (None if it returns).
WriteResult(chars, enc, supported) ==
  IF chars \subseteq Encodable(enc)
  THEN [out |-> chars, raised |-> None]
  ELSE IF TranslateNonBmp(chars, supported) \subseteq Encodable(enc)
       THEN [out |-> TranslateNonBmp(chars, supported), raised |-> None]
       ELSE [out |-> {}, raised |-> "UnicodeEncodeError"]


\* kind of the argument ("number", or "other" for a str, a list, None, ...).
IsNumber(kind) == kind = "number"

\* The lines the program writes.
AwaitingFrame == PlainLine("awaiting")        \* StateAwaiting.display
AwaitingDone  == PlainLine("awaiting_done")   \* StateAwaiting.done
AddedLine     == PlainLine("added")           \* "Added new states! ..."
OutMarker     == PlainLine("console_out")     \* "Cereja's console out!"
ErrorLine     == PlainLine("error")           \* "Error: file:line: message"

AnimatorLines == {AwaitingFrame, AwaitingDone}

\* ------------------------------------------------------------------- inputs
\* Lists handed to add_state / to the constructor: all sequences of variants
\* of length 0..MaxAddLen (a single state is the list of length 1).
StateLists == UNION {[1..n -> Variants] : n \in 0..MaxAddLen}

\* Constructor arguments explored: states=None, states=[Percent, Loading].
InitStateArgs == {<<>>, <<"Percent", "Loading">>}

\* max_value arguments: a kind and, for a number, its value.
MaxInputs == ({"number"} \X ((0 - 1)..MaxMax)) \cup {<<"other", 0>>}

ValueInputs == 0..MaxMax

\* Positions handed to an indexed read: around both ends of the sequence.
IndexInputs(sts) ==
  {0 - Len(sts) - 1, 0 - 1, 0, Len(sts) - 1, Len(sts), Len(sts) + 1}

TupleInputs(sts) == UNION {[1..n -> IndexInputs(sts)] : n \in 0..MaxTupleLen}

\* Symbolic keys handed to an indexed read: the four known ones, one unknown.
StrInputs == DOMAIN KeyMap \cup {"other"}

\* Constructor arguments: max_value (0 for a max_value that is not given or
\* falsy) and style.
MaxArgs == 0..MaxMax

StyleArgs == {"none", "loading"}

\* What unwinds through a `with progress:` block: nothing, an Exception, a
\* DeprecationWarning (an Exception too), a BaseException that is no
\* Exception.
ExcInputs == {None, "Exception", "DeprecationWarning", "KeyboardInterrupt"}

\* Texts handed to the sink, by the classes of characters they hold.
TextInputs == (SUBSET CharClasses) \ {{}}

\* -------------------------------------------------------------------- Init
\* State after Progress(name, max_value, states): ProgressBase.__init__
\* starts from default_states, add_state(states) appends and logs, then
\* Progress.__init__ sets max_value.
InitSession ==
  /\ \E arg \in InitStateArgs :
       LET msg == IF Notifications(Filtered(default_states, arg)) > 0
                  THEN AddedLine ELSE NoLine
       IN  /\ states = ConstructStates(arg)
           /\ last_console_msg = msg
           /\ term_last = msg
           /\ ctor_states = arg
  /\ max_value \in 1..MaxMax
  /\ n_times = 0
  /\ started = FALSE
  /\ awaiting_update = TRUE
  /\ th_awaiting = "unstarted"
  /\ title = "name"
  /\ use_th_console = FALSE
  /\ th_console = "none"
  /\ sys_stdout = "original"
  /\ awaiting_threads = [p \in AnimPcs |-> 0]
  /\ console_threads = 0
  /\ stack = <<>>
  /\ arg_value = 0
  /\ arg_kind = "none"
  /\ arg_max = 0
  /\ build = NoLine
  /\ raised = None
  /\ progress_written = FALSE
  /\ done_seen = FALSE
  /\ late = FALSE
  /\ last_add = [new |-> 0, notes |-> 0]
  /\ ret = NoValue
  /\ ctor_style = "none"
  /\ written = {}
  /\ in_scope = FALSE
  /\ exc_val = None
  /\ error_lines = 0
  /\ it_pc = "none"
  /\ it_len = 0
  /\ it_index = 0
  /\ wrap_starts = 0
  /\ run_starts = 0
  /\ run_stops = 0
  /\ it_advances = <<>>
  /\ stdout_buffer = <<>>
  /\ stderr_buffer = <<>>
  /\ n_writes = 0
  /\ relays = <<>>
  /\ relayed = [k \in 1..MaxWrites |-> 0]
  /\ marker_lines = 0
  /\ progress_redrawn = FALSE
  /\ tm_pc = "none"
  /\ tm_limit = 0
  /\ tm_elapsed = 0
  /\ tm_last = "none"
  /\ tm_done_lines = 0

\* The process holds this one session: _Stdout(self) was called by its
\* console only (ConsoleBase.__init__).
OneSession ==
  /\ o_started = FALSE
  /\ o_awaiting_update = FALSE
  /\ o_th_awaiting = "none"
  /\ o_title = "none"
  /\ console = "first"

\* ... on a terminal that encodes every character.
Init ==
  /\ InitSession
  /\ OneSession
  /\ encoding = "utf-8"
  /\ non_bmp_supported = TRUE

\* ... on a terminal of any of the encodings, under either setting.
InitWrite ==
  /\ InitSession
  /\ OneSession
  /\ encoding \in Encodings
  /\ non_bmp_supported \in BOOLEAN

\* ------------------------------------------------------------ the caller
Idle == stack = <<>>

Top == IF stack = <<>> THEN "idle" ELSE Head(stack)

Rest == Tail(stack)

\* Started animator threads that have not returned / relay threads likewise.
LiveAwaiting ==
  (IF th_awaiting \in AnimPcs THEN 1 ELSE 0)
  + awaiting_threads["check"] + awaiting_threads["frame"] + awaiting_threads["final"]

LiveConsole ==
  (IF th_console \in {"loop", "busy"} THEN 1 ELSE 0) + console_threads
  + Cardinality({i \in 1..Len(relays) : ~relays[i].ref})

\* `self.th_awaiting = self._create_awaiting()`: the field refers to a new
\* thread; the one it referred to keeps running if it was running.
Unreferenced(pc, threads) ==
  IF pc \in AnimPcs THEN [threads EXCEPT ![pc] = @ + 1] ELSE threads

\* Variant of RestoredStream: disable() leaves sys.stdout/sys.stderr alone.
RestoredStreamKept(current) == current

\* __Stdout.disable: sys.stdout = self.__stdout_original (and sys.stderr
\* likewise), whatever the streams were.
RestoredStream(current) == "original"

\* start(): `if self.started: self.restart()`, then the body of start().
StartPlan(st) == IF st THEN <<"restart", "start_body">> ELSE <<"start_body">>

\* restart(): self.stop(); self.start().
RestartPlan == <<"stop", "start">>

\* Variant of Norm: stop() without the `if self.started` test.
RECURSIVE NormStopUntested(_, _)
NormStopUntested(stk, st) ==
  IF stk = <<>> THEN <<>>
  ELSE CASE Head(stk) = "start"   -> NormStopUntested(StartPlan(st) \o Tail(stk), st)
         [] Head(stk) = "restart" -> NormStopUntested(RestartPlan \o Tail(stk), st)
         [] OTHER                 -> stk

\* The code positions the caller reaches without touching shared state: a
\* call of start() or restart() at the head of the stack is replaced by its
\* body, a stop() on a session that is not started returns at once.  Only the
\* caller writes `started`, so the test reads the value the code would read.
RECURSIVE Norm(_, _)
Norm(stk, st) ==
  IF stk = <<>> THEN <<>>
  ELSE CASE Head(stk) = "start"          -> Norm(StartPlan(st) \o Tail(stk), st)
         [] Head(stk) = "restart"        -> Norm(RestartPlan \o Tail(stk), st)
         [] Head(stk) = "stop" /\ ~st    -> Norm(Tail(stk), st)
         [] OTHER                        -> stk

\* Variant of UpdateMaxValuePlan: restart() also when the value is unchanged.
UpdateMaxValuePlanAlways(kind, m, maxv) ==
  IF kind # "number" THEN <<"raise">> ELSE <<"restart", "set_max">>

\* update_max_value: raise on a non-number, restart() and then assign when
\* the value differs from self.max_value, nothing otherwise.
UpdateMaxValuePlan(kind, m, maxv) ==
  IF ~IsNumber(kind) THEN <<"raise">>
  ELSE IF m # maxv THEN <<"restart", "set_max">>
  ELSE <<>>

\* The caller invokes progress.start().
CallStart ==
  /\ Idle
  /\ stack' = Norm(<<"start">>, started)
  /\ raised' = None
  /\ UNCHANGED <<extVars, sessionVars, title, stdoutVars, threadVars, term_last,
                 arg_value, arg_kind, arg_max, build, histVars>>

\* The caller invokes progress.stop().
CallStop ==
  /\ Idle
  /\ stack' = Norm(<<"stop">>, started)
  /\ raised' = None
  /\ UNCHANGED <<extVars, sessionVars, title, stdoutVars, threadVars, term_last,
                 arg_value, arg_kind, arg_max, build, histVars>>

\* The caller invokes progress.restart().
CallRestart ==
  /\ Idle
  /\ stack' = Norm(<<"restart">>, started)
  /\ raised' = None
  /\ UNCHANGED <<extVars, sessionVars, title, stdoutVars, threadVars, term_last,
                 arg_value, arg_kind, arg_max, build, histVars>>

\* update_max_value(m) entered with `cont` left to run after it returns: an
\* exception unwinds the whole call, otherwise the plan is run first.
EnterUpdateMaxValue(m, cont) ==
  LET plan == UpdateMaxValuePlan(m[1], m[2], max_value)
  IN  IF plan = <<"raise">>
      THEN /\ raised' = "Exception"
           /\ stack' = <<>>
           /\ UNCHANGED <<arg_kind, arg_max>>
      ELSE /\ raised' = None
           /\ stack' = Norm(plan \o cont, started)
           /\ IF plan = <<>>
              THEN UNCHANGED <<arg_kind, arg_max>>
              ELSE arg_kind' = m[1] /\ arg_max' = m[2]

\* The caller invokes progress.update_max_value(m).
CallUpdateMaxValue(m) ==
  /\ Idle
  /\ EnterUpdateMaxValue(m, <<>>)
  /\ UNCHANGED <<extVars, sessionVars, title, stdoutVars, threadVars, term_last,
                 arg_value, build, histVars>>

\* The caller invokes progress.show_progress(v): _states_view, then
\* console.replace_last_msg.
CallShowProgress(v) ==
  /\ Idle
  /\ n_times < MaxNTimes
  /\ arg_value' = v
  /\ stack' = <<"states_view", "replace_last_msg">>
  /\ raised' = None
  /\ UNCHANGED <<extVars, sessionVars, title, stdoutVars, threadVars, term_last,
                 arg_kind, arg_max, build, histVars>>

\* The caller invokes progress.show_progress(v, m):
\* `if max_value is not None: self.update_max_value(max_value)` first.
CallShowProgressMax(v, m) ==
  /\ Idle
  /\ n_times < MaxNTimes
  /\ EnterUpdateMaxValue(m, <<"states_view", "replace_last_msg">>)
  /\ arg_value' = IF stack' = <<>> THEN arg_value ELSE v
  /\ UNCHANGED <<extVars, sessionVars, title, stdoutVars, threadVars, term_last,
                 build, histVars>>

\* The body of start(): flags, console.persist_on_runtime() (__Stdout.persist
\* spawns the relay thread and redirects the streams), a new animator thread,
\* n_times = 0.
StepStartBody ==
  /\ Top = "start_body"
  /\ LiveAwaiting < MaxThreads /\ LiveConsole < MaxThreads
  /\ awaiting_update' = TRUE
  /\ started' = TRUE
  /\ use_th_console' = TRUE
  /\ console_threads' = console_threads + (IF th_console = "loop" THEN 1 ELSE 0)
  /\ relays' = [i \in 1..Len(relays) |-> [relays[i] EXCEPT !.ref = FALSE]]
  /\ th_console' = "loop"
  /\ sys_stdout' = "buffer"
  /\ awaiting_threads' = Unreferenced(th_awaiting, awaiting_threads)
  /\ th_awaiting' = "check"
  /\ n_times' = 0
  /\ progress_written' = FALSE
  /\ progress_redrawn' = FALSE
  /\ done_seen' = FALSE
  /\ late' = FALSE
  /\ stack' = Norm(Rest, TRUE)
  /\ wrap_starts' = wrap_starts + (IF it_pc = "wrapping" THEN 1 ELSE 0)
  /\ run_starts' = run_starts + (IF it_pc = "running" THEN 1 ELSE 0)
  /\ UNCHANGED <<readVars, ctorVars, writeVars, scopeVars, iterVars,
                 run_stops, it_advances,
                 stdout_buffer, stderr_buffer, n_writes, relayed, marker_lines,
                 states, max_value, title, last_console_msg, term_last,
                 arg_value, arg_kind, arg_max, build, raised, last_add, timedVars, pairVars>>

\* stop() on a started session: self._awaiting_update = False.
StepStop ==
  /\ Top = "stop"
  /\ started
  /\ awaiting_update' = FALSE
  /\ stack' = <<"stop_join">> \o Rest
  /\ run_stops' = run_stops + (IF it_pc = "running" THEN 1 ELSE 0)
  /\ UNCHANGED <<readVars, ctorVars, writeVars, scopeVars, iterVars,
                 wrap_starts, run_starts, it_advances, states, max_value, n_times, started, th_awaiting, title,
                 stdoutVars, threadVars, term_last,
                 arg_value, arg_kind, arg_max, build, raised, histVars,
                 relayVars, sinkHist, timedVars, pairVars>>

\* Variant of DisablePlan: the relay's flag is cleared before the marker line
\* is written.
DisablePlanFlagFirst(use) ==
  IF use THEN <<"disable_flag", "disable_marker", "disable_join">> ELSE <<>>

\* __Stdout.disable: `if self.use_th_console:` the marker line through
\* cj_msg, then use_th_console = False, then th_console.join(); the streams
\* are restored after it, or at once when the flag was not set.
DisablePlan(use) ==
  IF use THEN <<"disable_marker", "disable_flag", "disable_join">> ELSE <<>>

\* stop(): self.th_awaiting.join() returns once that thread has ended; then
\* started = False and console.disable(): title = "Cereja", and
\* __Stdout.disable is entered.
StepStopJoin ==
  LET plan == DisablePlan(use_th_console)
  IN  /\ Top = "stop_join"
      /\ th_awaiting = "ended"
      /\ started' = FALSE
      /\ title' = "Cereja"
      /\ marker_lines' = 0
      /\ IF plan = <<>>
         THEN /\ sys_stdout' = RestoredStream(sys_stdout)
              /\ stack' = Norm(Rest, FALSE)
         ELSE /\ stack' = plan \o Rest
              /\ UNCHANGED sys_stdout
      /\ UNCHANGED <<readVars, ctorVars, writeVars, scopeVars, iterVars, iterHist,
                     relayVars, relayed, progress_redrawn,
                     states, max_value, n_times, awaiting_update, th_awaiting,
                     use_th_console, th_console, last_console_msg, term_last,
                     threadVars,
                     arg_value, arg_kind, arg_max, build, raised, histVars, timedVars, pairVars>>

\* __Stdout.disable: self.cj_msg("Cereja's console out!").
StepDisableMarker ==
  /\ Top = "disable_marker"
  /\ last_console_msg' = OutMarker
  /\ term_last' = OutMarker
  /\ marker_lines' = marker_lines + 1
  /\ stack' = Rest
  /\ UNCHANGED <<readVars, ctorVars, writeVars, scopeVars, iterVars, iterHist,
                 relayVars, relayed, progress_redrawn,
                 sessionVars, title, use_th_console, th_console, sys_stdout,
                 threadVars,
                 arg_value, arg_kind, arg_max, build, raised, histVars, timedVars, pairVars>>

\* __Stdout.disable: self.use_th_console = False.
StepDisableFlag ==
  /\ Top = "disable_flag"
  /\ use_th_console' = FALSE
  /\ stack' = Rest
  /\ UNCHANGED <<extVars, sessionVars, title, th_console, last_console_msg, sys_stdout,
                 threadVars, term_last,
                 arg_value, arg_kind, arg_max, build, raised, histVars>>

\* __Stdout.disable: self.th_console.join(), then the streams are restored.
StepDisableJoin ==
  /\ Top = "disable_join"
  /\ th_console = "ended"
  /\ sys_stdout' = RestoredStream(sys_stdout)
  /\ stack' = Norm(Rest, started)
  /\ UNCHANGED <<extVars, sessionVars, title, use_th_console, th_console, last_console_msg,
                 threadVars, term_last,
                 arg_value, arg_kind, arg_max, build, raised, histVars>>

\* update_max_value after restart(): self.max_value = max_value.
StepSetMax ==
  /\ Top = "set_max"
  /\ max_value' = arg_max
  /\ arg_kind' = "none" /\ arg_max' = 0
  /\ stack' = Norm(Rest, started)
  /\ UNCHANGED <<extVars, states, n_times, started, awaiting_update, th_awaiting, title,
                 stdoutVars, threadVars, term_last,
                 arg_value, build, raised, histVars>>

\* show_progress: build_progress = self._states_view(for_value).
StepStatesView ==
  /\ Top = "states_view"
  /\ awaiting_update' = FALSE
  /\ n_times' = n_times + 1
  /\ build' = StatesView(arg_value, max_value, states)
  /\ done_seen' = (done_seen \/ build'.marker)
  /\ late' = (late \/ done_seen)
  /\ stack' = Rest
  /\ UNCHANGED <<extVars, states, max_value, started, th_awaiting, title,
                 stdoutVars, threadVars, term_last,
                 arg_value, arg_kind, arg_max, raised,
                 progress_written, last_add>>

\* show_progress: console.replace_last_msg(build_progress), i.e. cj_msg with
\* replace_last=True.
StepReplaceLastMsg ==
  /\ Top = "replace_last_msg"
  /\ last_console_msg' = build
  /\ term_last' = build
  /\ progress_written' = TRUE
  /\ build' = NoLine
  /\ arg_value' = 0
  /\ stack' = Norm(Rest, started)
  /\ UNCHANGED <<extVars, sessionVars, title, use_th_console, th_console, sys_stdout,
                 threadVars, arg_kind, arg_max, raised, done_seen, late, last_add>>

\* repr(progress): __repr__ calls self._states_view(self.max_value) for an
\* example line and returns a string; nothing is written.
Repr ==
  /\ Idle
  /\ n_times < MaxNTimes
  /\ awaiting_update' = FALSE
  /\ n_times' = n_times + 1
  /\ raised' = None
  /\ UNCHANGED <<extVars, states, max_value, started, th_awaiting, title,
                 stdoutVars, threadVars, term_last,
                 stack, arg_value, arg_kind, arg_max, build, histVars>>

\* progress.add_state(arg): a single state is wrapped into a list, None (here
\* the empty list) adds nothing; _filter_and_add_state appends the filtered
\* states and logs once through console.log (cj_msg).
AddState(arg) ==
  LET filtered == Filtered(states, arg)
  IN  /\ Idle
      /\ Len(states) + Len(filtered) <= MaxStates
      /\ states' = FilterAndAdd(states, arg)
      /\ last_add' = [new   |-> Cardinality(Range(filtered)),
                      notes |-> Notifications(filtered)]
      /\ IF Notifications(filtered) > 0
         THEN /\ last_console_msg' = AddedLine
              /\ term_last' = AddedLine
         ELSE UNCHANGED <<last_console_msg, term_last>>
      /\ raised' = None
      /\ UNCHANGED <<extVars, max_value, n_times, started, awaiting_update, th_awaiting, title,
                     use_th_console, th_console, sys_stdout, threadVars,
                     stack, arg_value, arg_kind, arg_max, build,
                     progress_written, done_seen, late>>

\* progress[key] = value with an int key: the state at that position is
\* replaced; an out-of-range key raises IndexError from the list assignment.
SetItemInt(key, value) ==
  /\ Idle
  /\ IF PyIndex(states, key) = 0
     THEN /\ raised' = "IndexError"
          /\ UNCHANGED states
     ELSE /\ raised' = None
          /\ states' = SetItemResult(states, key, value)
  /\ UNCHANGED <<extVars, max_value, n_times, started, awaiting_update, th_awaiting, title,
                 stdoutVars, threadVars, term_last,
                 stack, arg_value, arg_kind, arg_max, build, histVars>>

\* progress[key] = value with a key that is no int: raise Exception.
SetItemOther ==
  /\ Idle
  /\ raised' = "Exception"
  /\ UNCHANGED <<extVars, sessionVars, title, stdoutVars, threadVars, term_last,
                 stack, arg_value, arg_kind, arg_max, build, histVars>>

\* Progress(name, max_value=m, states=arg, style=style) replacing a session
\* that was never started: ProgressBase.__init__ (fields, default states,
\* add_state with its log line), then `if max_value: self.max_value = ...`
\* and `if style == "loading": self[0] = StateLoading`.
Construct(arg, m, style) ==
  LET filtered == Filtered(default_states, arg)
      base     == ConstructStates(arg)
  IN  /\ Idle
      /\ th_awaiting = "unstarted"
      /\ states' = IF style = "loading" THEN SetItemResult(base, 0, "Loading") ELSE base
      /\ last_add' = [new   |-> Cardinality(Range(filtered)),
                      notes |-> Notifications(filtered)]
      /\ IF Notifications(filtered) > 0
         THEN /\ last_console_msg' = AddedLine
              /\ term_last' = AddedLine
         ELSE UNCHANGED <<last_console_msg, term_last>>
      /\ max_value' = IF m = 0 THEN DefaultMaxValue ELSE m
      /\ n_times' = 0
      /\ started' = FALSE
      /\ awaiting_update' = TRUE
      /\ title' = "name"
      /\ raised' = None
      /\ ctor_states' = arg
      /\ ctor_style' = style
      /\ UNCHANGED <<th_awaiting, use_th_console, th_console, sys_stdout, threadVars,
                     stack, arg_value, arg_kind, arg_max, build,
                     progress_written, done_seen, late, readVars, writeVars, scopeVars,
                     iterVars, iterHist,
                 relayVars, sinkHist, timedVars, pairVars>>

\* Variant of IsReported: without the exemption of DeprecationWarning.
IsReportedNoExemption(exc) == exc \in {"Exception", "DeprecationWarning"}

\* __exit__: `isinstance(exc_val, Exception) and not isinstance(exc_val,
\* DeprecationWarning)`.
IsReported(exc) ==
  exc \in {"Exception", "DeprecationWarning"} /\ exc # "DeprecationWarning"

\* Variant of ExitPlan: the session is stopped before the error is reported.
ExitPlanStopFirst(exc) ==
  <<"stop">> \o (IF IsReported(exc) THEN <<"exit_error">> ELSE <<>>) \o <<"exit_return">>

\* Variant of ExitPlan: the session is stopped only on the paths without a
\* reported error.
ExitPlanStopUnlessError(exc) ==
  IF IsReported(exc) THEN <<"exit_error", "exit_return">> ELSE <<"stop", "exit_return">>

\* __exit__: console.error(...) for a reported exception, then self.stop(),
\* then the return of None.
ExitPlan(exc) ==
  (IF IsReported(exc) THEN <<"exit_error">> ELSE <<>>) \o <<"stop", "exit_return">>

\* `with progress:` is entered: __enter__ calls self.start().
Enter ==
  /\ Idle
  /\ ~in_scope
  /\ in_scope' = TRUE
  /\ exc_val' = None
  /\ error_lines' = 0
  /\ stack' = Norm(<<"start">>, started)
  /\ raised' = None
  /\ UNCHANGED <<sessionVars, title, stdoutVars, threadVars, term_last,
                 arg_value, arg_kind, arg_max, build, histVars,
                 readVars, ctorVars, writeVars, iterVars, iterHist,
                 relayVars, sinkHist, timedVars, pairVars>>

\* The block is left, normally (exc = None) or by an exception unwinding
\* through it: __exit__(exc_type, exc_val, exc_tb) is called.
Exit(exc) ==
  /\ Idle
  /\ in_scope
  /\ exc_val' = exc
  /\ stack' = Norm(ExitPlan(exc), started)
  /\ raised' = None
  /\ UNCHANGED <<sessionVars, title, stdoutVars, threadVars, term_last,
                 arg_value, arg_kind, arg_max, build, histVars,
                 readVars, ctorVars, writeVars, in_scope, error_lines,
                 iterVars, iterHist,
                 relayVars, sinkHist, timedVars, pairVars>>

\* __exit__: self.console.error(...): ConsoleBase.error formats the line and
\* __print hands it to cj_msg.
StepExitError ==
  /\ Top = "exit_error"
  /\ last_console_msg' = ErrorLine
  /\ term_last' = ErrorLine
  /\ error_lines' = error_lines + 1
  /\ stack' = Norm(Rest, started)
  /\ UNCHANGED <<sessionVars, title, use_th_console, th_console, sys_stdout,
                 threadVars, arg_value, arg_kind, arg_max, build, raised, histVars,
                 readVars, ctorVars, writeVars, in_scope, exc_val,
                 iterVars, iterHist,
                 relayVars, sinkHist, timedVars, pairVars>>

\* __exit__ returns None: the with statement re-raises the exception that
\* was unwinding, if any, to the caller.
StepExitReturn ==
  /\ Top = "exit_return"
  /\ raised' = exc_val
  /\ exc_val' = None
  /\ in_scope' = FALSE
  /\ stack' = Norm(Rest, started)
  /\ UNCHANGED <<sessionVars, title, stdoutVars, threadVars, term_last,
                 arg_value, arg_kind, arg_max, build, histVars,
                 readVars, ctorVars, writeVars, error_lines,
                 iterVars, iterHist,
                 relayVars, sinkHist, timedVars, pairVars>>

\* progress(sequence) with a sequence of length n: ProgressIterator.__init__
\* calls self.progress.update_max_value(len(self.sequence)).
Wrap(n) ==
  /\ Idle
  /\ it_pc = "none"
  /\ EnterUpdateMaxValue(<<"number", n>>, <<"it_wrapped">>)
  /\ it_pc' = "wrapping"
  /\ it_len' = n
  /\ it_index' = 0
  /\ UNCHANGED <<sessionVars, title, stdoutVars, threadVars, term_last,
                 arg_value, build, histVars,
                 readVars, ctorVars, writeVars, scopeVars, iterHist,
                 relayVars, sinkHist, timedVars, pairVars>>

\* ProgressIterator.__init__ returns: the wrapped sequence exists and
\* nothing of it has been consumed.
StepIterWrapped ==
  /\ Top = "it_wrapped"
  /\ it_pc' = "wrapped"
  /\ stack' = Rest
  /\ UNCHANGED <<sessionVars, title, stdoutVars, threadVars, term_last,
                 arg_value, arg_kind, arg_max, build, raised, histVars,
                 readVars, ctorVars, writeVars, scopeVars, it_len, it_index, iterHist,
                 relayVars, sinkHist, timedVars, pairVars>>

\* The consumer asks for the first element: __iter__ returns the generator
\* of __next__, whose body begins with self.progress.start() and then enters
\* the loop over enumerate(self.sequence).
IterFirst ==
  /\ Idle
  /\ it_pc = "wrapped"
  /\ it_pc' = "running"
  /\ stack' = Norm(<<"start", "it_loop">>, started)
  /\ raised' = None
  /\ UNCHANGED <<sessionVars, title, stdoutVars, threadVars, term_last,
                 arg_value, arg_kind, arg_max, build, histVars,
                 readVars, ctorVars, writeVars, scopeVars, it_len, it_index, iterHist,
                 relayVars, sinkHist, timedVars, pairVars>>

\* __next__, head of the loop: with an element left,
\* `if self.progress.started: self.progress.show_progress(for_value=n)` and
\* then the yield; with none left, self.progress.stop() and the end of the
\* generator.
StepIterLoop ==
  /\ Top = "it_loop"
  /\ IF it_index < it_len
     THEN IF started
          THEN /\ arg_value' = it_index
               /\ it_advances' = Append(it_advances, it_index)
               /\ stack' = <<"states_view", "replace_last_msg", "it_yield">> \o Rest
          ELSE /\ stack' = <<"it_yield">> \o Rest
               /\ UNCHANGED <<arg_value, it_advances>>
     ELSE /\ stack' = Norm(<<"stop", "it_end">> \o Rest, started)
          /\ UNCHANGED <<arg_value, it_advances>>
  /\ UNCHANGED <<sessionVars, title, stdoutVars, threadVars, term_last,
                 arg_kind, arg_max, build, raised, histVars,
                 readVars, ctorVars, writeVars, scopeVars, iterVars,
                 wrap_starts, run_starts, run_stops,
                 relayVars, sinkHist, timedVars, pairVars>>

\* __next__: `yield value` suspends the generator and hands the element to
\* the consumer.
StepIterYield ==
  /\ Top = "it_yield"
  /\ it_pc' = "yielded"
  /\ it_index' = it_index + 1
  /\ stack' = Rest
  /\ UNCHANGED <<sessionVars, title, stdoutVars, threadVars, term_last,
                 arg_value, arg_kind, arg_max, build, raised, histVars,
                 readVars, ctorVars, writeVars, scopeVars, it_len, iterHist,
                 relayVars, sinkHist, timedVars, pairVars>>

\* The consumer asks for the next element: the generator resumes after the
\* yield, at the head of the loop.
IterResume ==
  /\ Idle
  /\ it_pc = "yielded"
  /\ it_pc' = "running"
  /\ stack' = <<"it_loop">>
  /\ raised' = None
  /\ UNCHANGED <<sessionVars, title, stdoutVars, threadVars, term_last,
                 arg_value, arg_kind, arg_max, build, histVars,
                 readVars, ctorVars, writeVars, scopeVars, it_len, it_index, iterHist,
                 relayVars, sinkHist, timedVars, pairVars>>

\* The consumer stops before the last element (break): the suspended
\* generator is closed, GeneratorExit is raised at the yield, and __next__
\* has no try/finally around it: nothing more of its body runs.
IterAbandon ==
  /\ Idle
  /\ it_pc = "yielded"
  /\ it_index < it_len
  /\ it_pc' = "closed"
  /\ raised' = None
  /\ UNCHANGED <<sessionVars, title, stdoutVars, threadVars, term_last,
                 stack, arg_value, arg_kind, arg_max, build, histVars,
                 readVars, ctorVars, writeVars, scopeVars, it_len, it_index, iterHist,
                 relayVars, sinkHist, timedVars, pairVars>>

\* __next__: the generator's body ends after self.progress.stop()
\* (StopIteration ends the consumer's loop).
StepIterEnd ==
  /\ Top = "it_end"
  /\ it_pc' = "done"
  /\ stack' = Rest
  /\ UNCHANGED <<sessionVars, title, stdoutVars, threadVars, term_last,
                 arg_value, arg_kind, arg_max, build, raised, histVars,
                 readVars, ctorVars, writeVars, scopeVars, it_len, it_index, iterHist,
                 relayVars, sinkHist, timedVars, pairVars>>

\* console.log(text): __print, then cj_msg remembers the line and hands it
\* to _write; an exception leaving _write reaches the caller of log.
Log(chars) ==
  LET res == WriteResult(chars, encoding, non_bmp_supported)
  IN  /\ Idle
      /\ last_console_msg' = PlainLine("log")
      /\ term_last' = IF res.raised = None THEN PlainLine("log") ELSE term_last
      /\ written' = res.out
      /\ raised' = res.raised
      /\ UNCHANGED <<sessionVars, title, use_th_console, th_console, sys_stdout,
                     threadVars, stack, arg_value, arg_kind, arg_max, build,
                     histVars, readVars, ctorVars, encoding, non_bmp_supported, scopeVars,
                     iterVars, iterHist,
                 relayVars, sinkHist, timedVars, pairVars>>

\* progress[idxs] with a tuple of positions.
GetItemTuple(idxs) ==
  /\ Idle
  /\ raised' = GetItemTupleRaises(states, idxs)
  /\ ret' = IF raised' = None
            THEN Value("tuple", GetItemTupleValue(states, idxs)) ELSE NoValue
  /\ UNCHANGED <<sessionVars, title, stdoutVars, threadVars, term_last,
                 stack, arg_value, arg_kind, arg_max, build, histVars, ctorVars, writeVars, scopeVars,
                 iterVars, iterHist,
                 relayVars, sinkHist, timedVars, pairVars>>

\* progress[key] with a str key.
GetItemStr(key) ==
  /\ Idle
  /\ raised' = GetItemStrRaises(states, key)
  /\ ret' = IF raised' = None
            THEN Value("state", <<states[IndexOf(states, KeyMap[key])]>>) ELSE NoValue
  /\ UNCHANGED <<sessionVars, title, stdoutVars, threadVars, term_last,
                 stack, arg_value, arg_kind, arg_max, build, histVars, ctorVars, writeVars, scopeVars,
                 iterVars, iterHist,
                 relayVars, sinkHist, timedVars, pairVars>>

\* progress[k] with an int position: self._states[k].
GetItemInt(k) ==
  /\ Idle
  /\ raised' = IF PyIndex(states, k) = 0 THEN "IndexError" ELSE None
  /\ ret' = IF raised' = None
            THEN Value("state", <<states[PyIndex(states, k)]>>) ELSE NoValue
  /\ UNCHANGED <<sessionVars, title, stdoutVars, threadVars, term_last,
                 stack, arg_value, arg_kind, arg_max, build, histVars, ctorVars, writeVars, scopeVars,
                 iterVars, iterHist,
                 relayVars, sinkHist, timedVars, pairVars>>

\* ------------------------------------------------- the animator thread(s)
\* Variant of AfterCheck: a loop that does not test the flag (`while True`).
AfterCheckForever(flag) == "frame"

\* _show_awaiting: `while self._awaiting_update:` leads into the loop body or
\* past the loop.
AfterCheck(flag) == IF flag THEN "frame" ELSE "final"

\* The thread th_awaiting refers to, at the loop test.
AwaitingCheck ==
  /\ th_awaiting = "check"
  /\ th_awaiting' = AfterCheck(awaiting_update)
  /\ UNCHANGED <<extVars, states, max_value, n_times, started, awaiting_update, title,
                 stdoutVars, threadVars, term_last, callerVars, histVars>>

\* ... in the loop body: console.replace_last_msg(display frame), then
\* n_times += 1 (time_ is None) and time.sleep(0.01), back to the loop test.
AwaitingFrameStep ==
  /\ th_awaiting = "frame"
  /\ last_console_msg' = AwaitingFrame
  /\ term_last' = AwaitingFrame
  /\ th_awaiting' = "check"
  /\ UNCHANGED <<extVars, states, max_value, n_times, started, awaiting_update, title,
                 use_th_console, th_console, sys_stdout, threadVars,
                 callerVars, histVars>>

\* ... past the loop: console.replace_last_msg(done frame); the thread ends.
AwaitingFinalStep ==
  /\ th_awaiting = "final"
  /\ last_console_msg' = AwaitingDone
  /\ term_last' = AwaitingDone
  /\ th_awaiting' = "ended"
  /\ UNCHANGED <<extVars, states, max_value, n_times, started, awaiting_update, title,
                 use_th_console, th_console, sys_stdout, threadVars,
                 callerVars, histVars>>

\* The same three steps of an animator thread th_awaiting no longer refers to.
OrphanCheck ==
  /\ awaiting_threads["check"] > 0
  /\ awaiting_threads' =
       [awaiting_threads EXCEPT !["check"] = @ - 1,
                                ![AfterCheck(awaiting_update)] = @ + 1]
  /\ UNCHANGED <<extVars, sessionVars, title, stdoutVars, console_threads, term_last,
                 callerVars, histVars>>

OrphanFrameStep ==
  /\ awaiting_threads["frame"] > 0
  /\ last_console_msg' = AwaitingFrame
  /\ term_last' = AwaitingFrame
  /\ awaiting_threads' =
       [awaiting_threads EXCEPT !["frame"] = @ - 1, !["check"] = @ + 1]
  /\ UNCHANGED <<extVars, sessionVars, title, use_th_console, th_console, sys_stdout,
                 console_threads, callerVars, histVars>>

OrphanFinalStep ==
  /\ awaiting_threads["final"] > 0
  /\ last_console_msg' = AwaitingDone
  /\ term_last' = AwaitingDone
  /\ awaiting_threads' = [awaiting_threads EXCEPT !["final"] = @ - 1]
  /\ UNCHANGED <<extVars, sessionVars, title, use_th_console, th_console, sys_stdout,
                 console_threads, callerVars, histVars>>

\* ------------------------------------ an animator with a maximum run time
\* Variant of TimeIsUp: the run time is never found elapsed.
TimeIsUpNever(elapsed, limit) == FALSE

\* _show_awaiting: `(time.time() - time_it) > time_`.
TimeIsUp(elapsed, limit) == elapsed > limit

\* The caller creates and starts an animator with a run time of t:
\* self._create_awaiting(t).start(); the thread notes time_it.
StartTimedAwaiting(t) ==
  /\ Idle
  /\ tm_pc = "none"
  /\ tm_pc' = "check"
  /\ tm_limit' = t
  /\ tm_elapsed' = 0
  /\ UNCHANGED <<tm_last, tm_done_lines,
                 readVars, ctorVars, writeVars, scopeVars, iterVars, iterHist,
                 relayVars, sinkHist, pairVars,
                 sessionVars, title, stdoutVars, threadVars, term_last,
                 callerVars, histVars>>

\* Time passes while the thread is alive (the clock is not followed beyond
\* the first moment at which the run time has elapsed).
Tick ==
  /\ tm_pc \notin {"none", "ended"}
  /\ tm_elapsed <= tm_limit
  /\ tm_elapsed' = tm_elapsed + 1
  /\ UNCHANGED <<tm_pc, tm_limit, tm_last, tm_done_lines,
                 readVars, ctorVars, writeVars, scopeVars, iterVars, iterHist,
                 relayVars, sinkHist, pairVars,
                 sessionVars, title, stdoutVars, threadVars, term_last,
                 callerVars, histVars>>

\* _show_awaiting of that thread, at `while self._awaiting_update:`.
TimedCheck ==
  /\ tm_pc = "check"
  /\ tm_pc' = AfterCheck(awaiting_update)
  /\ UNCHANGED <<tm_limit, tm_elapsed, tm_last, tm_done_lines,
                 readVars, ctorVars, writeVars, scopeVars, iterVars, iterHist,
                 relayVars, sinkHist, pairVars,
                 sessionVars, title, stdoutVars, threadVars, term_last,
                 callerVars, histVars>>

\* ... in the loop body: console.replace_last_msg(display frame) and
\* n_times += 1; then, time_ being set, the test of the run time: break
\* when it has elapsed, otherwise on to time.sleep(0.01).
TimedFrameStep ==
  /\ tm_pc = "frame"
  /\ last_console_msg' = AwaitingFrame
  /\ term_last' = AwaitingFrame
  /\ tm_last' = "frame"
  /\ tm_pc' = IF TimeIsUp(tm_elapsed, tm_limit) THEN "final" ELSE "sleep"
  /\ UNCHANGED <<tm_limit, tm_elapsed, tm_done_lines,
                 readVars, ctorVars, writeVars, scopeVars, iterVars, iterHist,
                 relayVars, sinkHist, pairVars,
                 sessionVars, title, use_th_console, th_console, sys_stdout,
                 threadVars, callerVars, histVars>>

\* ... time.sleep(0.01) returns 0.01 s later at the earliest; back to the
\* loop test.
TimedSleep ==
  /\ tm_pc = "sleep"
  /\ tm_elapsed' = IF tm_elapsed <= tm_limit THEN tm_elapsed + 1 ELSE tm_elapsed
  /\ tm_pc' = "check"
  /\ UNCHANGED <<tm_limit, tm_last, tm_done_lines,
                 readVars, ctorVars, writeVars, scopeVars, iterVars, iterHist,
                 relayVars, sinkHist, pairVars,
                 sessionVars, title, stdoutVars, threadVars, term_last,
                 callerVars, histVars>>

\* ... past the loop: console.replace_last_msg(done frame); the thread ends.
TimedFinalStep ==
  /\ tm_pc = "final"
  /\ last_console_msg' = AwaitingDone
  /\ term_last' = AwaitingDone
  /\ tm_last' = "done"
  /\ tm_done_lines' = tm_done_lines + 1
  /\ tm_pc' = "ended"
  /\ UNCHANGED <<tm_limit, tm_elapsed,
                 readVars, ctorVars, writeVars, scopeVars, iterVars, iterHist,
                 relayVars, sinkHist, pairVars,
                 sessionVars, title, use_th_console, th_console, sys_stdout,
                 threadVars, callerVars, histVars>>

\* ---------------------------------------------------- the relay thread(s)
\* write_user_msg: `while self.use_th_console:` found false, the thread ends.
\* (With both capture buffers empty an iteration of the loop writes nothing.)
ConsoleExit ==
  /\ th_console = "loop"
  /\ ~use_th_console
  /\ th_console' = "ended"
  /\ UNCHANGED <<extVars, sessionVars, title, use_th_console, last_console_msg, sys_stdout,
                 threadVars, term_last, callerVars, histVars>>

\* The same for a relay thread th_console no longer refers to.
OrphanConsoleExit ==
  /\ console_threads > 0
  /\ ~use_th_console
  /\ console_threads' = console_threads - 1
  /\ UNCHANGED <<extVars, sessionVars, title, stdoutVars, awaiting_threads, term_last,
                 callerVars, histVars>>

\* ------------------------------------- the relay thread(s), with output
\* The locals of a relay thread inside an iteration of write_user_msg: ref
\* (th_console refers to it), its position, the snapshots `stdout` and
\* `stderr`, and the remembered line it has put into the text to write.
Relay(ref, pc, out, err, last) ==
  [ref |-> ref, pc |-> pc, out |-> out, err |-> err, last |-> last]

\* write_user_msg: `if stdout and ...:` is tried first, `if stderr and ...:`
\* after it.
FirstBranch(out, err) == IF out # <<>> THEN "out_fmt" ELSE "err_fmt"

\* The relay threads without the one at position i.
RemoveAt(seq, i) ==
  [j \in 1..(Len(seq) - 1) |-> IF j < i THEN seq[j] ELSE seq[j + 1]]

\* History: the lines `ids` have reached the terminal once more.
Count(counts, ids) ==
  [k \in DOMAIN counts |->
     counts[k] + Cardinality({j \in 1..Len(ids) : ids[j] = k})]

\* A progress line: an animator frame or a line rendered by show_progress.
IsProgressLine(line) == line \in AnimatorLines \/ line.kind = "progress"

\* The program prints a line to stdout or stderr while persist() has them
\* redirected: the line lands in the capture buffer of that stream.
ProgramWrite(stream) ==
  /\ Idle
  /\ sys_stdout = "buffer"
  /\ n_writes < MaxWrites
  /\ n_writes' = n_writes + 1
  /\ IF stream = "out"
     THEN /\ stdout_buffer' = Append(stdout_buffer, n_writes + 1)
          /\ UNCHANGED stderr_buffer
     ELSE /\ stderr_buffer' = Append(stderr_buffer, n_writes + 1)
          /\ UNCHANGED stdout_buffer
  /\ UNCHANGED <<relays, sinkHist, readVars, ctorVars, writeVars, scopeVars,
                 iterVars, iterHist, sessionVars, title, stdoutVars, threadVars,
                 term_last, callerVars, histVars, timedVars, pairVars>>

\* write_user_msg, the thread th_console refers to: the loop test found
\* use_th_console set; stdout = getvalue()[:-1] and stderr likewise (the
\* lines without the last line separator).  With both buffers empty the
\* iteration writes nothing and the thread sleeps again.
RelaySnapshot ==
  /\ th_console = "loop"
  /\ use_th_console
  /\ stdout_buffer # <<>> \/ stderr_buffer # <<>>
  /\ th_console' = "busy"
  /\ relays' = Append(relays, Relay(TRUE, FirstBranch(stdout_buffer, stderr_buffer),
                                    stdout_buffer, stderr_buffer, NoLine))
  /\ UNCHANGED <<stdout_buffer, stderr_buffer, n_writes, sinkHist,
                 readVars, ctorVars, writeVars, scopeVars, iterVars, iterHist,
                 sessionVars, title, use_th_console, last_console_msg, sys_stdout,
                 threadVars, term_last, callerVars, histVars, timedVars, pairVars>>

\* The same for a relay thread th_console no longer refers to.
OrphanRelaySnapshot ==
  /\ console_threads > 0
  /\ use_th_console
  /\ stdout_buffer # <<>> \/ stderr_buffer # <<>>
  /\ console_threads' = console_threads - 1
  /\ relays' = Append(relays, Relay(FALSE, FirstBranch(stdout_buffer, stderr_buffer),
                                    stdout_buffer, stderr_buffer, NoLine))
  /\ UNCHANGED <<stdout_buffer, stderr_buffer, n_writes, sinkHist,
                 readVars, ctorVars, writeVars, scopeVars, iterVars, iterHist,
                 sessionVars, title, stdoutVars, awaiting_threads,
                 term_last, callerVars, histVars, timedVars, pairVars>>

\* write_user_msg, relay thread i: the text to write is built, the titled
\* lines followed by self.last_console_msg as it is now.
RelayFormat(i) ==
  /\ i \in 1..Len(relays)
  /\ relays[i].pc \in {"out_fmt", "err_fmt"}
  /\ relays' = [relays EXCEPT ![i] =
                  [@ EXCEPT !.last = last_console_msg,
                            !.pc = IF @ = "out_fmt" THEN "out_write" ELSE "err_write"]]
  /\ UNCHANGED <<stdout_buffer, stderr_buffer, n_writes, sinkHist,
                 readVars, ctorVars, writeVars, scopeVars, iterVars, iterHist,
                 sessionVars, title, stdoutVars, threadVars,
                 term_last, callerVars, histVars, timedVars, pairVars>>

\* write_user_msg, relay thread i: self._write(value) puts the relayed lines
\* and, below them, the remembered line on the terminal; then seek(0) and
\* truncate() empty the buffer of that stream.  After the stdout branch the
\* stderr branch follows if the stderr snapshot holds text; otherwise the
\* thread sleeps and is back at its loop test.
RelayWrite(i) ==
  /\ i \in 1..Len(relays)
  /\ relays[i].pc \in {"out_write", "err_write"}
  /\ LET r    == relays[i]
         out  == r.pc = "out_write"
         more == out /\ r.err # <<>>
     IN  /\ term_last' = r.last
         /\ relayed' = Count(relayed, IF out THEN r.out ELSE r.err)
         /\ progress_redrawn' = (progress_redrawn \/ r.last.kind = "progress")
         /\ IF out
            THEN stdout_buffer' = <<>> /\ UNCHANGED stderr_buffer
            ELSE stderr_buffer' = <<>> /\ UNCHANGED stdout_buffer
         /\ IF more
            THEN /\ relays' = [relays EXCEPT ![i].pc = "err_fmt"]
                 /\ UNCHANGED <<th_console, console_threads>>
            ELSE /\ relays' = RemoveAt(relays, i)
                 /\ IF r.ref
                    THEN th_console' = "loop" /\ UNCHANGED console_threads
                    ELSE console_threads' = console_threads + 1 /\ UNCHANGED th_console
  /\ UNCHANGED <<n_writes, marker_lines,
                 readVars, ctorVars, writeVars, scopeVars, iterVars, iterHist,
                 sessionVars, title, use_th_console, last_console_msg, sys_stdout,
                 awaiting_threads, callerVars, histVars, timedVars, pairVars>>

\* ------------------------------------------ a second session of the process
\* The state neither session's start() and stop() touch.
soloVars == <<readVars, ctorVars, writeVars, scopeVars, iterVars, iterHist, timedVars>>

\* Progress('name', max_value=1) and a second Progress('other') exist, each
\* with the Console its constructor made; ConsoleBase.__init__ of each called
\* _Stdout(self), so the singleton's `console` is the console of the second
\* session, constructed last.  (It is constructed with states=None:
\* add_state logs nothing.)
InitPair ==
  /\ InitSession
  /\ encoding = "utf-8"
  /\ non_bmp_supported = TRUE
  /\ max_value = 1
  /\ states = default_states
  /\ o_started = FALSE
  /\ o_awaiting_update = TRUE
  /\ o_th_awaiting = "unstarted"
  /\ o_title = "other"
  /\ console = "other"

\* The caller invokes other.start() on the second session while it is not
\* started (start() on a started session is followed on the first session).
CallOtherStart ==
  /\ Idle
  /\ o_th_awaiting # "none"
  /\ ~o_started
  /\ stack' = <<"o_start_body">>
  /\ raised' = None
  /\ UNCHANGED <<extVars, sessionVars, title, stdoutVars, threadVars, term_last,
                 arg_value, arg_kind, arg_max, build, histVars>>

\* The body of other.start(): flags, console.persist_on_runtime() on the
\* console of the second session, which is __Stdout.persist of the one
\* singleton (a new relay thread, the streams redirected), a new animator
\* thread of the second session; its n_times is 0 and stays 0.
StepOtherStartBody ==
  /\ Top = "o_start_body"
  /\ LiveConsole < MaxThreads
  /\ o_awaiting_update' = TRUE
  /\ o_started' = TRUE
  /\ use_th_console' = TRUE
  /\ console_threads' = console_threads + (IF th_console = "loop" THEN 1 ELSE 0)
  /\ relays' = [i \in 1..Len(relays) |-> [relays[i] EXCEPT !.ref = FALSE]]
  /\ th_console' = "loop"
  /\ sys_stdout' = "buffer"
  /\ o_th_awaiting' = "check"
  /\ stack' = Rest
  /\ UNCHANGED <<soloVars, stdout_buffer, stderr_buffer, n_writes, sinkHist,
                 sessionVars, title, last_console_msg, awaiting_threads, term_last,
                 arg_value, arg_kind, arg_max, build, raised, histVars,
                 o_title, console>>

\* The caller invokes other.stop(): `if self.started:` guards all of it.
CallOtherStop ==
  /\ Idle
  /\ o_th_awaiting # "none"
  /\ stack' = IF o_started THEN <<"o_stop">> ELSE <<>>
  /\ raised' = None
  /\ UNCHANGED <<extVars, sessionVars, title, stdoutVars, threadVars, term_last,
                 arg_value, arg_kind, arg_max, build, histVars>>

\* other.stop(): self._awaiting_update = False.
StepOtherStop ==
  /\ Top = "o_stop"
  /\ o_awaiting_update' = FALSE
  /\ stack' = <<"o_stop_join">> \o Rest
  /\ UNCHANGED <<soloVars, relayVars, sinkHist,
                 sessionVars, title, stdoutVars, threadVars, term_last,
                 arg_value, arg_kind, arg_max, build, raised, histVars,
                 o_started, o_th_awaiting, o_title, console>>

\* other.stop(): self.th_awaiting.join(), started = False, and
\* console.disable() on the console of the second session: its title becomes
\* "Cereja", and __Stdout.disable of the one singleton is entered.
StepOtherStopJoin ==
  LET plan == DisablePlan(use_th_console)
  IN  /\ Top = "o_stop_join"
      /\ o_th_awaiting = "ended"
      /\ o_started' = FALSE
      /\ o_title' = "Cereja"
      /\ marker_lines' = 0
      /\ IF plan = <<>>
         THEN /\ sys_stdout' = RestoredStream(sys_stdout)
              /\ stack' = Rest
         ELSE /\ stack' = plan \o Rest
              /\ UNCHANGED sys_stdout
      /\ UNCHANGED <<soloVars, relayVars, relayed, progress_redrawn,
                     sessionVars, title, use_th_console, th_console,
                     last_console_msg, term_last, threadVars,
                     arg_value, arg_kind, arg_max, build, raised, histVars,
                     o_awaiting_update, o_th_awaiting, console>>

\* The animator thread of the second session: _show_awaiting at its loop
\* test, in the loop body, past the loop.  Its frames go through the console
\* of the second session to cj_msg of the one singleton.
OtherAwaitingCheck ==
  /\ o_th_awaiting = "check"
  /\ o_th_awaiting' = AfterCheck(o_awaiting_update)
  /\ UNCHANGED <<soloVars, relayVars, sinkHist,
                 sessionVars, title, stdoutVars, threadVars, term_last,
                 callerVars, histVars,
                 o_started, o_awaiting_update, o_title, console>>

OtherAwaitingFrameStep ==
  /\ o_th_awaiting = "frame"
  /\ last_console_msg' = AwaitingFrame
  /\ term_last' = AwaitingFrame
  /\ o_th_awaiting' = "check"
  /\ UNCHANGED <<soloVars, relayVars, sinkHist,
                 sessionVars, title, use_th_console, th_console, sys_stdout,
                 threadVars, callerVars, histVars,
                 o_started, o_awaiting_update, o_title, console>>

OtherAwaitingFinalStep ==
  /\ o_th_awaiting = "final"
  /\ last_console_msg' = AwaitingDone
  /\ term_last' = AwaitingDone
  /\ o_th_awaiting' = "ended"
  /\ UNCHANGED <<soloVars, relayVars, sinkHist,
                 sessionVars, title, use_th_console, th_console, sys_stdout,
                 threadVars, callerVars, histVars,
                 o_started, o_awaiting_update, o_title, console>>

\* ---------------------------------------------------------- specifications
Next ==
  \/ CallStart
  \/ CallStop
  \/ CallRestart
  \/ \E m \in MaxInputs : CallUpdateMaxValue(m)
  \/ \E v \in ValueInputs : CallShowProgress(v)
  \/ \E v \in ValueInputs, m \in MaxInputs : CallShowProgressMax(v, m)
  \/ Repr
  \/ StepStartBody
  \/ StepStop
  \/ StepStopJoin
  \/ StepDisableMarker
  \/ StepDisableFlag
  \/ StepDisableJoin
  \/ StepSetMax
  \/ StepStatesView
  \/ StepReplaceLastMsg
  \/ AwaitingCheck
  \/ AwaitingFrameStep
  \/ AwaitingFinalStep
  \/ OrphanCheck
  \/ OrphanFrameStep
  \/ OrphanFinalStep
  \/ ConsoleExit
  \/ OrphanConsoleExit

\* The session's lifecycle, updates and background threads.
Spec == Init /\ [][Next]_vars

\* Scheduling: the caller runs on when the thread it joins has ended, and
\* the operating system gives every started thread its turn (the animator
\* sleeps 0.01 s, the relay 1 s per iteration).
Fairness ==
  /\ WF_vars(StepStop)
  /\ WF_vars(StepStopJoin)
  /\ WF_vars(StepDisableMarker)
  /\ WF_vars(StepDisableFlag)
  /\ WF_vars(StepDisableJoin)
  /\ WF_vars(AwaitingCheck)
  /\ WF_vars(AwaitingFrameStep)
  /\ WF_vars(AwaitingFinalStep)
  /\ WF_vars(ConsoleExit)

\* The lifecycle of the session: start, stop, restart and show_progress
\* calls in any order, and the background threads.
NextLife ==
  \/ CallStart
  \/ CallStop
  \/ CallRestart
  \/ \E v \in ValueInputs : CallShowProgress(v)
  \/ StepStartBody
  \/ StepStop
  \/ StepStopJoin
  \/ StepDisableMarker
  \/ StepDisableFlag
  \/ StepDisableJoin
  \/ StepStatesView
  \/ StepReplaceLastMsg
  \/ AwaitingCheck
  \/ AwaitingFrameStep
  \/ AwaitingFinalStep
  \/ OrphanCheck
  \/ OrphanFrameStep
  \/ OrphanFinalStep
  \/ ConsoleExit
  \/ OrphanConsoleExit

\* The lifecycle under fair scheduling of the caller and the threads.
SpecFair == Init /\ [][NextLife]_vars /\ Fairness

NextStates ==
  \/ \E arg \in StateLists : AddState(arg)
  \/ \E key \in (0 - 1)..MaxStates, value \in Variants : SetItemInt(key, value)
  \/ SetItemOther

\* Progress(name, max_value=1, states): add_state and __setitem__ never read
\* max_value, so one ceiling stands for all of them here.
InitStates == Init /\ max_value = 1

\* The operations on the state sequence of a session.
SpecStates == InitStates /\ [][NextStates]_vars

NextCtor ==
  \/ \E arg \in StateLists, m \in MaxArgs, style \in StyleArgs : Construct(arg, m, style)
  \/ \E key \in StrInputs : GetItemStr(key)
  \/ \E k \in IndexInputs(states) : GetItemInt(k)

\* Construction of a session, and reads of single states of it.
SpecCtor == Init /\ [][NextCtor]_vars

NextRead ==
  \/ \E arg \in StateLists, m \in MaxArgs, style \in StyleArgs : Construct(arg, m, style)
  \/ \E idxs \in TupleInputs(states) : GetItemTuple(idxs)
  \/ \E key \in StrInputs : GetItemStr(key)
  \/ \E k \in IndexInputs(states) : GetItemInt(k)

\* Construction of a session and indexed reads of its states.
SpecRead == Init /\ [][NextRead]_vars

\* Scoped use of the session: the block may call start, stop and
\* show_progress; the background threads run throughout.
NextScope ==
  \/ Enter
  \/ \E exc \in ExcInputs : Exit(exc)
  \/ StepExitError
  \/ StepExitReturn
  \/ CallStart
  \/ CallStop
  \/ \E v \in ValueInputs : CallShowProgress(v)
  \/ StepStartBody
  \/ StepStop
  \/ StepStopJoin
  \/ StepDisableMarker
  \/ StepDisableFlag
  \/ StepDisableJoin
  \/ StepStatesView
  \/ StepReplaceLastMsg
  \/ AwaitingCheck
  \/ AwaitingFrameStep
  \/ AwaitingFinalStep
  \/ OrphanCheck
  \/ OrphanFrameStep
  \/ OrphanFinalStep
  \/ ConsoleExit
  \/ OrphanConsoleExit

SpecScope == Init /\ [][NextScope]_vars

\* A sequence wrapped and consumed, on a session that may have been started
\* before; the background threads run throughout.
NextIter ==
  \/ \E n \in 0..MaxSeqLen : Wrap(n)
  \/ StepIterWrapped
  \/ IterFirst
  \/ StepIterLoop
  \/ StepIterYield
  \/ IterResume
  \/ IterAbandon
  \/ StepIterEnd
  \/ CallStart
  \/ StepStartBody
  \/ StepStop
  \/ StepStopJoin
  \/ StepDisableMarker
  \/ StepDisableFlag
  \/ StepDisableJoin
  \/ StepSetMax
  \/ StepStatesView
  \/ StepReplaceLastMsg
  \/ AwaitingCheck
  \/ AwaitingFrameStep
  \/ AwaitingFinalStep
  \/ OrphanCheck
  \/ OrphanFrameStep
  \/ OrphanFinalStep
  \/ ConsoleExit
  \/ OrphanConsoleExit

SpecIter == Init /\ [][NextIter]_vars

\* Progress('name', max_value=1): the ceiling and the states play no part
\* in the relay.
InitSink == Init /\ max_value = 1 /\ states = default_states

\* A session that is started and stopped while its program prints to the
\* redirected stdout and stderr; the animator and relay threads run
\* throughout.
NextSink ==
  \/ CallStart
  \/ CallStop
  \/ \E stream \in {"out", "err"} : ProgramWrite(stream)
  \/ StepStartBody
  \/ StepStop
  \/ StepStopJoin
  \/ StepDisableMarker
  \/ StepDisableFlag
  \/ StepDisableJoin
  \/ AwaitingCheck
  \/ AwaitingFrameStep
  \/ AwaitingFinalStep
  \/ OrphanCheck
  \/ OrphanFrameStep
  \/ OrphanFinalStep
  \/ ConsoleExit
  \/ OrphanConsoleExit
  \/ RelaySnapshot
  \/ OrphanRelaySnapshot
  \/ \E i \in 1..MaxThreads : RelayFormat(i)
  \/ \E i \in 1..MaxThreads : RelayWrite(i)

SpecSink == InitSink /\ [][NextSink]_vars

\* The same session with progress lines and log lines: the program calls
\* show_progress(0) and console.log, and prints to the redirected stdout.
NextRedraw ==
  \/ CallStart
  \/ CallStop
  \/ \E v \in {0} : CallShowProgress(v)
  \/ \E chars \in {{"ascii"}} : Log(chars)
  \/ \E stream \in {"out"} : ProgramWrite(stream)
  \/ StepStartBody
  \/ StepStop
  \/ StepStopJoin
  \/ StepDisableMarker
  \/ StepDisableFlag
  \/ StepDisableJoin
  \/ StepStatesView
  \/ StepReplaceLastMsg
  \/ AwaitingCheck
  \/ AwaitingFrameStep
  \/ AwaitingFinalStep
  \/ OrphanCheck
  \/ OrphanFrameStep
  \/ OrphanFinalStep
  \/ ConsoleExit
  \/ OrphanConsoleExit
  \/ RelaySnapshot
  \/ OrphanRelaySnapshot
  \/ \E i \in 1..MaxThreads : RelayFormat(i)
  \/ \E i \in 1..MaxThreads : RelayWrite(i)

SpecRedraw == InitSink /\ [][NextRedraw]_vars

\* An animator with a maximum run time on a session that is not started;
\* the caller may call show_progress, or nothing at all.
NextTimed ==
  \/ \E t \in 0..MaxTime : StartTimedAwaiting(t)
  \/ Tick
  \/ TimedCheck
  \/ TimedFrameStep
  \/ TimedSleep
  \/ TimedFinalStep
  \/ \E v \in ValueInputs : CallShowProgress(v)
  \/ StepStatesView
  \/ StepReplaceLastMsg

\* Scheduling: the operating system gives the started thread its turn.
FairnessTimed ==
  /\ WF_vars(TimedCheck)
  /\ WF_vars(TimedFrameStep)
  /\ WF_vars(TimedSleep)
  /\ WF_vars(TimedFinalStep)

SpecTimed == Init /\ [][NextTimed]_vars /\ FairnessTimed

\* Two sessions of one process, each started and stopped by the caller while
\* the program prints to the redirected stdout; the animator threads of both
\* and the relay threads run throughout.
NextPair ==
  \/ CallStart
  \/ CallStop
  \/ CallOtherStart
  \/ CallOtherStop
  \/ ProgramWrite("out")
  \/ StepStartBody
  \/ StepStop
  \/ StepStopJoin
  \/ StepOtherStartBody
  \/ StepOtherStop
  \/ StepOtherStopJoin
  \/ StepDisableMarker
  \/ StepDisableFlag
  \/ StepDisableJoin
  \/ AwaitingCheck
  \/ AwaitingFrameStep
  \/ AwaitingFinalStep
  \/ OrphanCheck
  \/ OrphanFrameStep
  \/ OrphanFinalStep
  \/ OtherAwaitingCheck
  \/ OtherAwaitingFrameStep
  \/ OtherAwaitingFinalStep
  \/ ConsoleExit
  \/ OrphanConsoleExit
  \/ RelaySnapshot
  \/ OrphanRelaySnapshot
  \/ \E i \in 1..MaxThreads : RelayFormat(i)
  \/ \E i \in 1..MaxThreads : RelayWrite(i)

SpecPair == InitPair /\ [][NextPair]_vars

NextWrite == \E chars \in TextInputs : Log(chars)

\* Lines logged through the sink on the terminals and settings of InitWrite.
SpecWrite == InitWrite /\ [][NextWrite]_vars

\* ------------------------------------------------------------------ claims
\* The caller takes the step at the head of its stack.
CallerAt(label) == Top = label /\ stack' # stack

\* C1: for a started session, once the first show_progress has written its
\* progress line, no animator line ("Awaiting..." frame or "Awaiting... Done!")
\* is written to the terminal afterwards.
C1_NoAnimatorLineAfterProgress ==
  (started /\ progress_written) => term_last \notin AnimatorLines

\* C2: at most one animator loop and at most one relay loop are alive for the
\* session at any time, whatever the sequence of start/stop/restart/
\* update_max_value/show_progress calls.
C2_AtMostOneLoopOfEachKind == LiveAwaiting <= 1 /\ LiveConsole <= 1

\* C3: when no session operation is in progress and the session is not
\* started, no animator loop and no relay loop is running.
C3_StoppedMeansNoLoops ==
  (Idle /\ ~started) => (LiveAwaiting = 0 /\ LiveConsole = 0)

\* C4: show_progress(v) on a session with a positive max_value renders the
\* done fragment of every active state followed by the "Done!" marker if
\* v >= max_value - 1, and the display fragment of every state and no marker
\* otherwise.
C4_CompletionThreshold ==
  (Top = "replace_last_msg" /\ max_value >= 1) =>
     LET how == IF arg_value >= max_value - 1 THEN "done" ELSE "display"
     IN  /\ build.kind = "progress"
         /\ build.marker = (arg_value >= max_value - 1)
         /\ Len(build.frags) = Len(states)
         /\ \A i \in 1..Len(states) : build.frags[i] = <<states[i], how>>

\* C4 witness: a render at the boundary v = max_value - 1 carries the marker,
\* with max_value large enough for v - 1 to be a value as well.
C4_Witness ==
  /\ Top = "replace_last_msg"
  /\ max_value >= 2
  /\ arg_value = max_value - 1
  /\ build.marker

\* C5 as claimed: within one run, once a show_progress has invoked done() on
\* the states, no later show_progress of that run renders them again.
C5_DoneOnlyOnce == started => ~late

\* C5 as amended: every show_progress of a run invokes one render function on
\* every active state, done() if v >= max_value - 1 and display() otherwise,
\* also when done() was invoked earlier in the run; it records the render
\* and leaves the earlier ones standing.
C5_RenderedOnEveryAdvance ==
  [][ (CallerAt("states_view") /\ max_value >= 1) =>
        /\ Len(build'.frags) = Len(states)
        /\ \A i \in 1..Len(states) :
             build'.frags[i] =
               <<states[i], IF arg_value >= max_value - 1 THEN "done" ELSE "display">>
        /\ done_seen' = (done_seen \/ arg_value >= max_value - 1)
        /\ late' = (late \/ done_seen) ]_vars

\* C5 witness: a started run in which a show_progress rendered the states
\* after an earlier one had invoked done(), the line about to be written.
C5_Witness ==
  /\ started
  /\ late
  /\ Top = "replace_last_msg"
  /\ Len(build.frags) = Len(states)

\* C6: update_max_value(m) with a non-number, or with a number <= 0, raises
\* and leaves max_value, n_times, started, _awaiting_update and the threads
\* unchanged.
C6_InvalidMaxRejected ==
  [][ \A m \in MaxInputs :
        (CallUpdateMaxValue(m) /\ (m[1] # "number" \/ m[2] <= 0)) =>
           /\ raised' = "Exception"
           /\ stack' = <<>>
           /\ UNCHANGED <<sessionVars, threadVars>> ]_vars

\* C7: update_max_value(m) with m equal to max_value changes nothing; with a
\* different positive m it runs restart() (stop() if started, then start())
\* and assigns max_value only after it: at the assignment the session is
\* started, n_times is 0 and _awaiting_update is set.
C7_MaxValueChangeRestarts ==
  [][ /\ \A m \in MaxInputs :
           (CallUpdateMaxValue(m) /\ m[1] = "number" /\ m[2] = max_value) =>
              UNCHANGED <<sessionVars, title, stdoutVars, threadVars, term_last, stack>>
      /\ \A m \in MaxInputs :
           (CallUpdateMaxValue(m) /\ m[1] = "number" /\ m[2] # max_value /\ m[2] >= 1) =>
              /\ stack' = IF started THEN <<"stop", "start", "set_max">>
                                     ELSE <<"start_body", "set_max">>
              /\ arg_max' = m[2]
              /\ UNCHANGED <<sessionVars, threadVars>>
      /\ (max_value' # max_value) =>
              /\ CallerAt("set_max")
              /\ max_value' = arg_max
              /\ started /\ n_times = 0 /\ awaiting_update
              /\ th_awaiting \in {"check", "frame"} ]_vars

\* C7 witness: restart() has run for a different positive value and the
\* assignment of max_value is the next statement.
C7_Witness ==
  /\ Top = "set_max"
  /\ arg_max >= 1 /\ arg_max # max_value
  /\ started /\ n_times = 0 /\ awaiting_update

\* C8: n_times is 0 after start() and from then on equals the number of
\* show_progress calls since the last start(): once the session has been
\* started, n_times changes only in start() (to 0) and in the _states_view of
\* a show_progress (by one), which also clears _awaiting_update.
C8_CallCountCountsAdvances ==
  [][ /\ CallerAt("start_body") => n_times' = 0
      /\ (th_awaiting # "unstarted" /\ n_times' # n_times) =>
           \/ CallerAt("start_body")
           \/ CallerAt("states_view") /\ n_times' = n_times + 1
      /\ CallerAt("states_view") => (n_times' = n_times + 1 /\ ~awaiting_update') ]_vars

\* C9: the session's state sequence holds each state variant at most once.
C9_NoDuplicateStates ==
  \A i, j \in 1..Len(states) : i # j => states[i] # states[j]

\* C10 as claimed: an add_state call logs one "Added new states!" line per
\* distinct variant it newly adds.
C10_OneNotificationPerVariant == last_add.notes = last_add.new

\* C10 as amended: an add_state call logs exactly one "Added new states!"
\* line if it adds at least one state, however many, and none otherwise.
C10_OneNotificationPerCall ==
  last_add.notes = (IF last_add.new > 0 THEN 1 ELSE 0)

\* C10 witness: a call that added two distinct new variants and logged once.
C10_Witness == last_add.new = 2 /\ last_add.notes = 1 /\ term_last = AddedLine

\* C16: stop() on a session that is not started is a no-op: it returns at
\* once, changes no field of the session or of the sink, starts or ends no
\* thread and writes nothing to the terminal (no "console out" marker); so a
\* second stop() right after a first one changes nothing.
C16_StopWhenNotStartedIsNoOp ==
  [][ (CallStop /\ ~started) =>
        UNCHANGED <<sessionVars, title, stdoutVars, threadVars, term_last, stack>> ]_vars

\* C16 witness: a session stopped by stop() (threads joined, marker written,
\* streams restored) on which a further stop() has returned: that call leads
\* from this state to itself.
C16_Witness ==
  /\ Idle /\ ~started /\ raised = None
  /\ th_awaiting = "ended" /\ th_console = "ended"
  /\ sys_stdout = "original"
  /\ last_console_msg = OutMarker
  /\ Norm(<<"stop">>, started) = <<>>

\* The positions of the caller inside stop() on a started session.
StopLabels ==
  {"stop", "stop_join", "disable_marker", "disable_flag", "disable_join"}

\* The caller is inside stop() on a started session.
InStop == Top \in StopLabels

\* C17: under fair scheduling every stop() on a started session returns, and
\* when it returns the animator thread th_awaiting refers to (the one the
\* last start() started) has ended.
C17_StopReturns ==
  /\ InStop ~> ~InStop
  /\ [][ (InStop /\ ~InStop') => (th_awaiting' = "ended" /\ ~started') ]_vars

\* C17 witness: stop() on a started session has returned to the caller, the
\* animator and the relay it joined have ended.
C17_Witness ==
  /\ Idle /\ ~started
  /\ th_awaiting = "ended" /\ th_console = "ended"
  /\ term_last = OutMarker

\* C18: an indexed read raises for every unknown symbolic key and for every
\* out-of-range position, also a position inside a tuple (in particular the
\* position len(states)); no out-of-range position is skipped silently.
C18_BadIndexedReadRaises ==
  [][ /\ \A idxs \in TupleInputs(states) :
           (GetItemTuple(idxs) /\ \E i \in 1..Len(idxs) : PyIndex(states, idxs[i]) = 0)
              => raised' # None
      /\ \A key \in StrInputs :
           (GetItemStr(key) /\ key \notin DOMAIN KeyMap) => raised' # None
      /\ \A k \in IndexInputs(states) :
           (GetItemInt(k) /\ PyIndex(states, k) = 0) => raised' # None ]_vars

\* C19 as claimed: a session constructed with an explicit list of states
\* holds exactly that list, one constructed without holds (Bar, Percent, Time).
C19_ConstructedStatesAreTheList ==
  ctor_style = "none" =>
     states = IF ctor_states = <<>> THEN default_states ELSE ctor_states

\* C19 as amended: a session constructed (without a style) with a list of
\* states holds (Bar, Percent, Time) followed by the states of the list that
\* are not among these three, in the order of the list; constructed without
\* a list it holds (Bar, Percent, Time).
C19_ConstructedStatesExtendDefaults ==
  ctor_style = "none" =>
     states = default_states
                \o SelectSeq(ctor_states, LAMBDA v : v \notin Range(default_states))

\* C19 witness: a session constructed with a list that names a default state
\* and then a state that is not one: it holds the three defaults and then
\* that state.
C19_Witness ==
  /\ ctor_style = "none"
  /\ ctor_states = <<"Time", "Loading">>
  /\ states = <<"Bar", "Percent", "Time", "Loading">>
  /\ last_add = [new |-> 1, notes |-> 1]

\* C20: a sink write that hits an encoding failure is recovered inside the
\* sink under either NON_BMP_SUPPORTED setting: the text is written with the
\* replacement character and no error reaches the caller.
C20_EncodingFailureRecovered ==
  raised # "UnicodeEncodeError" /\ (term_last = PlainLine("log") => written # {})

\* The caller is inside the stop() that __exit__ calls, or past it.
ExitAtOrPastStop == Top \in StopLabels \cup {"exit_return"}

C11_WrappedSequenceDrivesSession ==
  /\ it_pc = "wrapped" => wrap_starts = 0
  /\ Len(it_advances) > 0 => run_starts = 1
  /\ it_pc = "done" =>
       /\ wrap_starts = 0 /\ run_starts = 1 /\ run_stops = 1
       /\ it_advances = [i \in 1..it_len |-> i - 1]

\* C12: when the consumer stops before the last element, stop() is still
\* called once: the session is not started, no background thread is left
\* and the output streams are restored.
C12_EarlyExitStillStops ==
  it_pc = "closed" =>
     /\ run_stops = 1
     /\ ~started
     /\ LiveAwaiting = 0 /\ LiveConsole = 0
     /\ sys_stdout = "original"

\* C30: stop() and restart() leave the title of the session's console, the
\* display name given at construction, unchanged: whatever was called, the
\* prefix of the lines rendered next carries the name.
C30_TitleKept == title = "name"

\* C26: whenever no operation of the session is in progress, sys.stdout and
\* sys.stderr are the capture buffers if and only if the session is started;
\* after every stop() they are the original streams again.
C26_RedirectedIffStarted ==
  Idle => ((sys_stdout = "buffer") <=> started)

\* C26 witness: a started session was stopped and the streams are restored.
C26_Witness ==
  Idle /\ ~started /\ sys_stdout = "original" /\ term_last = OutMarker

\* C25: when an active interceptor is deactivated, exactly one marker line
\* is written through the sink, and it is written before the relay's flag
\* is cleared and before sys.stdout and sys.stderr are restored.
C25_MarkerBeforeRelayStops ==
  /\ [](marker_lines <= 1)
  /\ [][ /\ (use_th_console /\ ~use_th_console') =>
              (marker_lines = 1 /\ sys_stdout = "buffer")
         /\ (sys_stdout = "buffer" /\ sys_stdout' = "original") =>
              (marker_lines = 1 /\ ~use_th_console /\ UNCHANGED marker_lines) ]_vars

\* C25 witness: disable() has returned: one marker line, the relay thread
\* joined, the streams restored.
C25_Witness ==
  /\ Idle /\ ~started /\ ~use_th_console
  /\ marker_lines = 1 /\ th_console = "ended" /\ sys_stdout = "original"

\* Line k the program printed is still to be relayed: it is in a capture
\* buffer, or in the snapshot of a relay thread that has yet to write it.
Pending(k) ==
  \/ k \in Range(stdout_buffer) \cup Range(stderr_buffer)
  \/ \E i \in 1..Len(relays) :
        \/ k \in Range(relays[i].out) /\ relays[i].pc \in {"out_fmt", "out_write"}
        \/ k \in Range(relays[i].err)

\* A relay thread is between building its text and writing it.
RelayWriting == \E i \in 1..Len(relays) : relays[i].pc \in {"out_write", "err_write"}

\* C22: the relay's snapshot-and-clear of a capture buffer is atomic for the
\* writers: a line the program printed to the redirected streams is never
\* discarded without having been relayed.
C22_NoCapturedTextDiscarded ==
  \A k \in 1..n_writes : relayed[k] = 0 => Pending(k)

\* C23: writes to the terminal and updates of the remembered last line
\* exclude each other: whenever no write of the sink is in progress the
\* remembered line is the line most recently written, and the line a relay
\* re-prints is never older than the line most recently written.
C23_RememberedLineIsLastWritten ==
  /\ [](~RelayWriting => last_console_msg = term_last)
  /\ [][ \A i \in 1..MaxThreads : RelayWrite(i) => term_last' = last_console_msg ]_vars

\* C28: lines printed while the session is started are relayed even when
\* stop() comes before the relay's next iteration: once the interceptor is
\* deactivated no captured line is left in the buffers.
C28_NothingLeftInBuffers ==
  (Idle /\ ~started) => (stdout_buffer = <<>> /\ stderr_buffer = <<>>)

\* C29: a line captured from the program's stdout or stderr is relayed to
\* the terminal at most once, whatever start(), stop() and restart() calls
\* and program writes occur, start() on a started session included.
C29_RelayedAtMostOnce ==
  \A k \in 1..MaxWrites : relayed[k] <= 1

\* C24: a relay write ends with the most recent progress line (an animator
\* frame or a show_progress line), also when a log line was printed through
\* the sink after it: the line a relay re-prints, when it is the remembered
\* line as it is now and a progress line was rendered in this run, is a
\* progress line.
C24_RelayRedrawsProgressLine ==
  [][ \A i \in 1..MaxThreads :
        (/\ RelayWrite(i)
         /\ started /\ progress_written
         /\ relays[i].last = last_console_msg)
        => IsProgressLine(term_last') ]_vars

\* C21: while the session is started and _awaiting_update is set, no
\* progress line rendered from the states has been written to the terminal
\* since the last start().
C21_AwaitingMeansNoProgressLine ==
  (started /\ awaiting_update) => (~progress_written /\ ~progress_redrawn)

\* C27: an animator started with a maximum run time ends by itself once the
\* time has elapsed, also when no show_progress and no stop() ever occurs;
\* when it ends it has written its done line exactly once, as its last
\* line, and it writes nothing afterwards.
C27_TimedAnimatorEnds ==
  /\ (tm_pc = "check") ~> (tm_pc = "ended")
  /\ [](tm_pc = "ended" => (tm_done_lines = 1 /\ tm_last = "done"))
  /\ [](tm_pc # "ended" => tm_done_lines = 0)
  /\ [][tm_pc = "ended" => UNCHANGED <<tm_pc, tm_last, tm_done_lines>>]_vars

\* C27 witness: the animator has ended because its run time had elapsed:
\* _awaiting_update is still set, no progress line was ever written.
C27_Witness ==
  /\ tm_pc = "ended" /\ awaiting_update /\ n_times = 0
  /\ tm_limit = MaxTime /\ tm_elapsed > tm_limit
  /\ term_last = AwaitingDone

\* C32: producing the textual representation of the session (repr) leaves
\* the session's state unchanged: n_times and _awaiting_update keep their
\* values, so an animator that is running keeps running, and the thread the
\* session refers to is the same.
C32_ReprLeavesSessionUnchanged ==
  [][ Repr => /\ n_times' = n_times
              /\ awaiting_update' = awaiting_update
              /\ th_awaiting' = th_awaiting ]_vars

\* C31: two sessions, each constructed with a console of its own, are
\* independent: when one has been stopped (its console carries the title
\* disable() gave it) and the other is running, the streams are still
\* redirected for the running one, a relay loop is still running for it, and
\* the captured lines are formatted by its own console.
C31_SessionsIndependent ==
  /\ (Idle /\ started /\ ~o_started /\ o_title = "Cereja") =>
       /\ sys_stdout = "buffer"
       /\ use_th_console /\ LiveConsole >= 1
       /\ (\E i \in 1..Len(relays) : relays[i].pc \in {"out_fmt", "err_fmt"})
            => console = "first"
  /\ (Idle /\ o_started /\ ~started /\ title = "Cereja") =>
       /\ sys_stdout = "buffer"
       /\ use_th_console /\ LiveConsole >= 1
       /\ (\E i \in 1..Len(relays) : relays[i].pc \in {"out_fmt", "err_fmt"})
            => console = "other"
====
